---- MODULE Spec2Model ----
(***************************************************************************)
(* Model of the record pipeline of backend/app: process_records (batch),  *)
(* receive_data (single record), forward_data (delivery with retry), the   *)
(* batch endpoints upload_file and fetch_data, and fetch_data_from_api.    *)
(* One run of the model is one call of one of these entry points, chosen   *)
(* in Init by `caller`.                                                    *)
(***************************************************************************)
EXTENDS Integers, Sequences, FiniteSets, TLC

VARIABLES
    caller,             \* which entry point this run executes
    pc,                 \* control location of the run
    schema_name,        \* path parameter / registry key
    schema_source,      \* how get_schema_by_name ends for schema_name
    schema,             \* JSON-schema document the schema source returns
    contact_source_url, \* settings.CONTACT_MESSAGE_SOURCE_URL
    contact_destination_url, \* settings.CONTACT_MESSAGE_DESTINATION_URL
    source_body,        \* fetch_data: the JSON document the source API answers with
    records,            \* process_records: the batch; receive_data: <<payload>>
    i,                  \* 1-based position of the record being processed
    transformed_data,   \* result of schema_config["transform"](record)
    db,                 \* committed rows of table "data", in commit order
    db_item,            \* id of the row repo.create returned (0: none)
    results,            \* process_records buckets
    validation_errors,
    errors,
    http_status,        \* endpoints: status of the HTTP response (0: none yet)
    message,            \* upload_file / fetch_data: which message or detail
    headers_arg,        \* forward_data: the headers mapping as the caller passed it
    url,                \* forward_data frame
    data,
    auth_handler,
    retry_config,
    attempt,
    last_exception,
    outcome,            \* what forward_data returned or raised
    post_log,           \* history: result of each POST attempt of the current call
    get_log,            \* history: result of each GET of fetch_data_from_api
    fetched,            \* the list fetch_data_from_api returned (<< >>: none yet)
    headers,            \* the caller's headers mapping, as it is now
    request_headers,    \* the headers posted
    sent,               \* history: payload and headers of each POST of the call
    sleeps,             \* history: attempts after which asyncio.sleep ran
    auth_calls,         \* history: invocations of auth_handler in the current call
    delays,             \* history: the delay each asyncio.sleep was given (ms)
    trace               \* history: per record, the calls made for it

vars ==
    << caller, pc, schema_name, schema_source, schema, contact_source_url,
       contact_destination_url, source_body, records, headers_arg, i,
       transformed_data, db, db_item, results, validation_errors, errors,
       http_status, message, url, data, auth_handler, retry_config, attempt,
       last_exception, outcome, post_log, get_log, fetched, headers,
       request_headers, sent, sleeps, auth_calls, delays, trace >>

pipeline_vars ==
    << schema_name, schema_source, schema, contact_source_url,
       contact_destination_url, source_body, records, headers_arg >>

fd_vars ==
    << url, data, auth_handler, retry_config, attempt, last_exception,
       outcome, post_log, get_log, fetched, headers, request_headers, sent,
       sleeps, auth_calls, delays >>

(***************************************************************************)
(* Bounds of the model                                                     *)
(***************************************************************************)
MaxRecords ==
    2

MaxAttempts ==
    3

None ==
    "None"

(***************************************************************************)
(* Records, schemas, registry                                              *)
(***************************************************************************)
Fields ==
    {"name", "email", "message"}

\* A JSON value that is a dict with the given keys, or a non-dict value.
DictRecord(fs) ==
    [kind |-> "dict", fields |-> fs]

ScalarRecord ==
    [kind |-> "scalar", fields |-> {}]

RecordDomain ==
    {DictRecord(Fields), DictRecord({"name", "email"}), ScalarRecord}

\* Schema documents the schema source can hand back.
ContactSchema ==
    [wellformed |-> TRUE, object |-> TRUE, required |-> Fields]

RawSchema ==
    [wellformed |-> TRUE, object |-> FALSE, required |-> {}]

MalformedSchema ==
    [wellformed |-> FALSE, object |-> FALSE, required |-> {}]

SchemaDomain ==
    {ContactSchema, RawSchema, MalformedSchema}

\* jsonschema: does the instance satisfy the (well-formed) schema.
Conforms(record, sch) ==
    /\ sch.object => record.kind = "dict"
    /\ record.kind = "dict" => sch.required \subseteq record.fields

ValidateResult_Lenient(record, sch) ==
    IF ~sch.wellformed THEN "schema_error" ELSE "ok"

\* jsonschema.validate: returns, raises ValidationError, or raises SchemaError.
ValidateResult(record, sch) ==
    IF ~sch.wellformed THEN "schema_error"
    ELSE IF ~Conforms(record, sch) THEN "validation_error"
    ELSE "ok"

Get(record, key) ==
    IF key \in record.fields THEN "v" ELSE None

transform_contact_message(record) ==
    [full_name |-> Get(record, "name"),
     email_address |-> Get(record, "email"),
     msg_body |-> Get(record, "message")]

transform_feedback(record) ==
    [userId |-> Get(record, "user_id"),
     score |-> Get(record, "rating"),
     comments |-> Get(record, "text")]

SchemaNames ==
    {"contact-message-schema", "user-feedback-schema", "unknown-schema"}

RegisteredNames ==
    {"contact-message-schema", "user-feedback-schema"}

DestinationUrls ==
    {"", "https://contact.dest"}

\* SCHEMA_REGISTRY[name], for a name that has an entry.
SCHEMA_REGISTRY(name) ==
    IF name = "contact-message-schema"
    THEN [schema_name |-> "contact-message-schema",
          transform |-> "transform_contact_message",
          source_url |-> contact_source_url,
          destination_url |-> contact_destination_url]
    ELSE [schema_name |-> "user-feedback",
          transform |-> "transform_feedback",
          source_url |-> "",
          destination_url |-> "https://external.api/feedback"]

\* data.get on a non-dict raises AttributeError.
TransformRaises(record) ==
    record.kind # "dict"

Transform(config, record) ==
    IF config.transform = "transform_contact_message"
    THEN transform_contact_message(record)
    ELSE transform_feedback(record)

(***************************************************************************)
(* RetryConfig and the HTTP destination                                    *)
(***************************************************************************)
DefaultMaxAttempts ==
    3

DefaultRetryStatusCodes ==
    {408, 429, 500, 502, 503, 504}

\* A float as a ratio of integers.
Ratio(n, d) ==
    [num |-> n, den |-> d]

\* RetryConfig(): delays are in milliseconds (base_delay=1.0, max_delay=30.0),
\* backoff_factor=2.0.
DefaultRetryConfig ==
    [max_attempts |-> DefaultMaxAttempts,
     base_delay |-> 1000,
     max_delay |-> 30000,
     backoff_factor |-> Ratio(2, 1),
     retry_status_codes |-> DefaultRetryStatusCodes]

\* Values the float fields of RetryConfig are given: no validator restricts
\* them.
BaseDelays ==
    {1000}

MaxDelays ==
    {1500, 30000}

BackoffFactors ==
    {Ratio(1, 2), Ratio(2, 1)}

StatusCodes ==
    {200, 302, 404, 503}

RetryConfigs ==
    [max_attempts : 1..MaxAttempts,
     base_delay : BaseDelays,
     max_delay : MaxDelays,
     backoff_factor : BackoffFactors,
     retry_status_codes : SUBSET StatusCodes]

Pow(b, e) ==
    IF e = 0 THEN 1
    ELSE IF e = 1 THEN b
    ELSE IF e = 2 THEN b * b
    ELSE IF e = 3 THEN b * b * b
    ELSE b * b * b * b

Min(a, b) ==
    IF a <= b THEN a ELSE b

\* Lines 298-301: min(base_delay * backoff_factor ** (attempt - 1), max_delay).
Delay(rc, n) ==
    Min((rc.base_delay * Pow(rc.backoff_factor.num, n - 1))
            \div Pow(rc.backoff_factor.den, n - 1),
        rc.max_delay)

\* What one POST can come back with: a response (status, body), a network-level
\* failure (httpx.RequestError / TimeoutException), or any other exception.
Responses ==
    {[kind |-> "response", status |-> 200, body |-> ""],
     [kind |-> "response", status |-> 200, body |-> "json"],
     [kind |-> "response", status |-> 200, body |-> "text"],
     [kind |-> "response", status |-> 302, body |-> ""],
     [kind |-> "response", status |-> 404, body |-> "text"],
     [kind |-> "response", status |-> 503, body |-> "text"]}

NetworkError ==
    [kind |-> "network", status |-> 0, body |-> ""]

UnexpectedError ==
    [kind |-> "unexpected", status |-> 0, body |-> ""]

PostOutcomes ==
    Responses \cup {NetworkError, UnexpectedError}

\* response.raise_for_status(): never raises on 2xx, always on 4xx/5xx; on 3xx
\* it depends on the httpx release installed.
RaiseForStatus(status) ==
    IF status >= 200 /\ status < 300 THEN {FALSE}
    ELSE IF status >= 400 THEN {TRUE}
    ELSE BOOLEAN

\* What the auth handler does: it raises, or returns a dict of str values
\* ("headers"), a dict with str and other values ("mixed"), a non-empty dict
\* without any str value ("payload"), or something that is not a dict.
AuthHandlers ==
    {None, "raises", "headers", "mixed", "payload", "nondict"}

\* The keys of the dict the handler returns when line 281 takes it for
\* headers.
AuthHeadersOf(h) ==
    IF h = "headers" THEN {"Authorization"}
    ELSE IF h = "mixed" THEN {"Authorization", "X-Attempt"}
    ELSE {}

\* A headers argument: None, or a mapping with the given entries.
NoHeaders ==
    [passed |-> FALSE, entries |-> {}]

HeadersDict(entries) ==
    [passed |-> TRUE, entries |-> entries]

HeaderArgs ==
    {NoHeaders, HeadersDict({}), HeadersDict({"X-Trace"})}

HeadersToSend_AuthAlways(hs, h) ==
    hs.entries \cup (IF h = None THEN {} ELSE {"Authorization"})

\* Lines 273-283: request_headers = headers or {}, updated with the
\* handler's result when it is taken for headers.
HeadersToSend(hs, h) ==
    hs.entries \cup AuthHeadersOf(h)

\* `headers or {}` is the caller's own mapping when that one is not empty.
Aliased(hs) ==
    hs.passed /\ hs.entries # {}

\* The caller's mapping after line 283: request_headers.update writes into
\* it when request_headers is the same object.
HeadersAfter(hs, h) ==
    IF Aliased(hs) THEN [hs EXCEPT !.entries = HeadersToSend(hs, h)] ELSE hs

\* The dict an auth handler returns to replace the payload (no str values).
AuthPayload ==
    [signed |-> TRUE]

NoData ==
    [empty |-> TRUE]

NoException ==
    [kind |-> None, status |-> 0]

NoOutcome ==
    [kind |-> None, exc |-> None, success |-> FALSE, status_code |-> 0,
     content |-> None, error_message |-> None]

Raised(e) ==
    [kind |-> "raise", exc |-> e, success |-> FALSE, status_code |-> 0,
     content |-> None, error_message |-> None]

ResponseData(success, status_code, content, error_message) ==
    [kind |-> "return", exc |-> None, success |-> success,
     status_code |-> status_code, content |-> content,
     error_message |-> error_message]

(***************************************************************************)
(* forward_data                                                            *)
(***************************************************************************)
Classify_RetryAllErrors(rc, r, rfs) ==
    IF r.kind = "network" THEN "retry"
    ELSE IF r.kind = "unexpected" THEN "unexpected"
    ELSE IF r.status \in rc.retry_status_codes /\ rfs THEN "retry"
    ELSE IF r.status >= 400 THEN "retry"
    ELSE IF r.body = "text" THEN "unexpected"
    ELSE "success"

Classify_NetworkNotRetried(rc, r, rfs) ==
    IF r.kind = "network" THEN "unexpected"
    ELSE IF r.kind = "unexpected" THEN "unexpected"
    ELSE IF r.status \in rc.retry_status_codes /\ rfs THEN "retry"
    ELSE IF r.status >= 400 THEN "nonretryable"
    ELSE IF r.body = "text" THEN "unexpected"
    ELSE "success"

\* How lines 308-366 treat the result r of one POST, rfs telling whether
\* raise_for_status raises for r.status:
\*   "retry"        falls through to the sleep / loop exit (lines 368-371)
\*   "nonretryable" returns success=False with the status and body (340-347)
\*   "unexpected"   returns success=False, status 500 (361-366)
\*   "success"      returns success=True (322-326)
Classify(rc, r, rfs) ==
    IF r.kind = "network" THEN "retry"
    ELSE IF r.kind = "unexpected" THEN "unexpected"
    ELSE IF r.status \in rc.retry_status_codes /\ rfs THEN "retry"
    ELSE IF r.status >= 400 THEN "nonretryable"
    ELSE IF r.body = "text" THEN "unexpected"
    ELSE "success"

\* response.json() if response.content else None
ParsedContent(body) ==
    IF body = "" THEN None ELSE "parsed:" \o body

\* e.response.content
RawContent(body) ==
    "bytes:" \o body

\* The exception object an attempt leaves in last_exception.
ExceptionOf(r) ==
    IF r.kind = "response" /\ r.body = "text" /\ r.status < 400
    THEN [kind |-> "JSONDecodeError", status |-> 0]
    ELSE IF r.kind = "response"
    THEN [kind |-> "HTTPStatusError", status |-> r.status]
    ELSE IF r.kind = "network"
    THEN [kind |-> "RequestError", status |-> 0]
    ELSE [kind |-> "Exception", status |-> 0]

ExhaustedStatusCode_Zero(exc) ==
    0

\* last_exception.response.status_code if hasattr(last_exception, "response") else 0
ExhaustedStatusCode(exc) ==
    IF exc.kind = "HTTPStatusError" THEN exc.status ELSE 0

MaxRetriesMessage ==
    "Maximum retry attempts exceeded"

TerminalOutcome_NoMessage(class, r) ==
    IF class = "success"
    THEN ResponseData(TRUE, r.status, ParsedContent(r.body), None)
    ELSE IF class = "nonretryable"
    THEN ResponseData(FALSE, r.status, RawContent(r.body), "HTTP error")
    ELSE ResponseData(FALSE, 500, None, None)

\* The ResponseData a terminal attempt returns.
TerminalOutcome(class, r) ==
    IF class = "success"
    THEN ResponseData(TRUE, r.status, ParsedContent(r.body), None)
    ELSE IF class = "nonretryable"
    THEN ResponseData(FALSE, r.status, RawContent(r.body), "HTTP error")
    ELSE ResponseData(FALSE, 500, None, "Unexpected error")

\* History: one more POST for the record being processed.
CountCall(field) ==
    IF caller = "forward_data"
    THEN trace
    ELSE [trace EXCEPT ![i][field] = @ + 1]

Entry(next, out, calls, payload) ==
    [pc |-> next, outcome |-> out, auth_calls |-> calls, data |-> payload]

EntryResult_AuthSwallowed(u, h, d) ==
    IF u = "" THEN Entry("fd_exit", Raised("ValueError"), 0, d)
    ELSE IF h = None THEN Entry("fd_loop", NoOutcome, 0, d)
    ELSE IF h = "raises" THEN Entry("fd_loop", NoOutcome, 1, d)
    ELSE IF h = "payload" THEN Entry("fd_loop", NoOutcome, 1, AuthPayload)
    ELSE Entry("fd_loop", NoOutcome, 1, d)

EntryResult_AuthBeforeUrl(u, h, d) ==
    IF h = "raises" THEN Entry("fd_exit", Raised("AuthenticationError"), 1, d)
    ELSE IF u = "" THEN Entry("fd_exit", Raised("ValueError"),
                              IF h = None THEN 0 ELSE 1, d)
    ELSE IF h = None THEN Entry("fd_loop", NoOutcome, 0, d)
    ELSE IF h = "payload" THEN Entry("fd_loop", NoOutcome, 1, AuthPayload)
    ELSE Entry("fd_loop", NoOutcome, 1, d)

EntryResult_UrlUnchecked(u, h, d) ==
    IF h = None THEN Entry("fd_loop", NoOutcome, 0, d)
    ELSE IF h = "raises"
    THEN Entry("fd_exit", Raised("AuthenticationError"), 1, d)
    ELSE IF h = "payload" THEN Entry("fd_loop", NoOutcome, 1, AuthPayload)
    ELSE Entry("fd_loop", NoOutcome, 1, d)

\* Lines 269-291 for url u, auth handler h and payload d: where control goes,
\* what is raised, how often the handler ran, and the payload to post.
EntryResult(u, h, d) ==
    IF u = "" THEN Entry("fd_exit", Raised("ValueError"), 0, d)
    ELSE IF h = None THEN Entry("fd_loop", NoOutcome, 0, d)
    ELSE IF h = "raises"
    THEN Entry("fd_exit", Raised("AuthenticationError"), 1, d)
    ELSE IF h = "payload" THEN Entry("fd_loop", NoOutcome, 1, AuthPayload)
    ELSE Entry("fd_loop", NoOutcome, 1, d)

\* Lines 266-294: retry_config default, URL check, auth handler, loop set-up.
FD_Entry ==
    /\ pc = "fd_entry"
    /\ LET e == EntryResult(url, auth_handler, data)
       IN  /\ pc' = e.pc
           /\ outcome' = e.outcome
           /\ auth_calls' = auth_calls + e.auth_calls
           /\ data' = e.data
           /\ request_headers' =
                 IF e.pc = "fd_loop"
                 THEN HeadersToSend(headers, auth_handler) ELSE request_headers
           /\ headers' =
                 IF e.pc = "fd_loop"
                 THEN HeadersAfter(headers, auth_handler) ELSE headers
    /\ attempt' = 0
    /\ last_exception' = NoException
    /\ UNCHANGED << caller, pipeline_vars, i, transformed_data, db, db_item,
                    results, validation_errors, errors, http_status, url,
                    auth_handler, retry_config, post_log, sleeps, delays, trace >>
    /\ UNCHANGED message
    /\ UNCHANGED << get_log, fetched, sent >>

\* Lines 296-366 and, when the loop ends, 373-384: one pass of the while loop
\* up to (not including) the sleep.
FD_Attempt ==
    /\ pc = "fd_loop"
    /\ attempt < retry_config.max_attempts
    /\ \E r \in PostOutcomes :
       \E rfs \in (IF r.kind = "response" THEN RaiseForStatus(r.status) ELSE {FALSE}) :
          LET class == Classify(retry_config, r, rfs)
              n == attempt + 1
          IN  /\ attempt' = n
              /\ post_log' = Append(post_log, r)
              /\ sent' = Append(sent, [payload |-> data,
                                       headers |-> request_headers])
              /\ trace' = CountCall("post")
              /\ last_exception' =
                    IF class = "success" THEN last_exception ELSE ExceptionOf(r)
              /\ IF class # "retry"
                 THEN /\ outcome' = TerminalOutcome(class, r)
                      /\ pc' = "fd_exit"
                 ELSE IF n < retry_config.max_attempts
                 THEN /\ pc' = "fd_sleep"
                      /\ UNCHANGED outcome
                 ELSE /\ outcome' =
                           ResponseData(FALSE, ExhaustedStatusCode(ExceptionOf(r)),
                                        None, MaxRetriesMessage)
                      /\ pc' = "fd_exit"
    /\ UNCHANGED << caller, pipeline_vars, i, transformed_data, db, db_item,
                    results, validation_errors, errors, http_status, url, data,
                    auth_handler, retry_config, sleeps, auth_calls, delays >>
    /\ UNCHANGED message
    /\ UNCHANGED << get_log, fetched, headers, request_headers >>

FD_Sleep_UncountedRetry ==
    /\ pc = "fd_sleep"
    /\ sleeps' = Append(sleeps, attempt)
    /\ delays' = Append(delays, Delay(retry_config, attempt))
    /\ attempt' = attempt - 1
    /\ pc' = "fd_loop"
    /\ UNCHANGED << caller, pipeline_vars, i, transformed_data, db, db_item,
                    results, validation_errors, errors, http_status, url, data,
                    auth_handler, retry_config, last_exception,
                    outcome, post_log, auth_calls, trace >>
    /\ UNCHANGED message
    /\ UNCHANGED << get_log, fetched, headers, request_headers, sent >>

\* Lines 369-371: await asyncio.sleep(delay), then back to the loop head.
FD_Sleep ==
    /\ pc = "fd_sleep"
    /\ sleeps' = Append(sleeps, attempt)
    /\ delays' = Append(delays, Delay(retry_config, attempt))
    /\ pc' = "fd_loop"
    /\ UNCHANGED << caller, pipeline_vars, i, transformed_data, db, db_item,
                    results, validation_errors, errors, http_status, url, data,
                    auth_handler, retry_config, attempt, last_exception,
                    outcome, post_log, auth_calls, trace >>
    /\ UNCHANGED message
    /\ UNCHANGED << get_log, fetched, headers, request_headers, sent >>

(***************************************************************************)
(* repo.create, and the frame of a forward_data call                       *)
(***************************************************************************)
\* BaseRepository.create: add + commit, then refresh. The commit or the
\* refresh may raise; the row exists once the commit went through.
CreateOutcomes ==
    {"ok", "commit_failed", "refresh_failed"}

NextId ==
    Len(db) + 1

Row(config, record, transformed) ==
    [id |-> NextId, schema_name |-> config.schema_name, raw_data |-> record,
     transformed_data |-> transformed, forwarded_to |-> config.destination_url]

RepoCreate(o, row) ==
    IF o = "commit_failed" THEN db ELSE Append(db, row)

CreateReturned_Always(o) ==
    TRUE

\* Whether repo.create returned (rather than raised).
CreateReturned(o) ==
    o = "ok"

NoTrace ==
    [validate |-> 0, transform |-> 0, create |-> 0, forward |-> 0, post |-> 0,
     id |-> 0, created |-> None, delivery |-> None]

\* forward_data(transformed_data, schema_config["destination_url"]): the
\* defaults of the other parameters apply.
CallForward(config) ==
    /\ url' = config.destination_url
    /\ data' = transformed_data
    /\ auth_handler' = None
    /\ retry_config' = DefaultRetryConfig
    /\ attempt' = 0
    /\ last_exception' = NoException
    /\ outcome' = NoOutcome
    /\ post_log' = << >>
    /\ get_log' = << >>
    /\ fetched' = << >>
    /\ headers' = NoHeaders
    /\ request_headers' = {}
    /\ sent' = << >>
    /\ sleeps' = << >>
    /\ auth_calls' = 0
    /\ delays' = << >>

\* The frame is gone once the caller has the result.
DropFrame ==
    /\ url' = ""
    /\ data' = NoData
    /\ auth_handler' = None
    /\ retry_config' = DefaultRetryConfig
    /\ attempt' = 0
    /\ last_exception' = NoException
    /\ outcome' = NoOutcome
    /\ post_log' = << >>
    /\ get_log' = << >>
    /\ fetched' = << >>
    /\ headers' = NoHeaders
    /\ request_headers' = {}
    /\ sent' = << >>
    /\ sleeps' = << >>
    /\ auth_calls' = 0
    /\ delays' = << >>

\* How the call ended, as the record's history keeps it.
DeliveryOf(o) ==
    IF o.kind = "raise" THEN "raised"
    ELSE IF o.success THEN "success" ELSE "failure"

(***************************************************************************)
(* process_records                                                         *)
(***************************************************************************)
\* The runs in which process_records executes: called on its own, or by one
\* of the batch endpoints.
BatchEndpoints ==
    {"upload_file", "fetch_data"}

BatchCallers ==
    {"process_records"} \cup BatchEndpoints

PR_Next_Abort ==
    /\ i' = Len(records) + 1
    /\ pc' = "pr_validate"
    /\ transformed_data' = NoData
    /\ db_item' = 0

PR_Next_Repeat ==
    /\ i' = i
    /\ pc' = "pr_validate"
    /\ transformed_data' = NoData
    /\ db_item' = 0

\* The loop moves on to the next record.
PR_Next ==
    /\ i' = i + 1
    /\ pc' = "pr_validate"
    /\ transformed_data' = NoData
    /\ db_item' = 0

ValidationErrorEntry ==
    [record |-> i, status |-> "validation error"]

ErrorEntry(detail) ==
    [record |-> i, status |-> "error", detail |-> detail]

SuccessEntry ==
    [id |-> db_item, status |-> "success"]

\* Line 186 (next record) and 189: validate(instance=record, schema=schema).
PR_Validate ==
    /\ caller \in BatchCallers
    /\ pc = "pr_validate"
    /\ i <= Len(records)
    /\ trace' = [trace EXCEPT ![i].validate = @ + 1]
    /\ LET v == ValidateResult(records[i], schema)
       IN  IF v = "ok"
           THEN /\ pc' = "pr_transform"
                /\ UNCHANGED << i, transformed_data, db_item,
                                validation_errors, errors >>
           ELSE IF v = "validation_error"
           THEN /\ validation_errors' =
                      Append(validation_errors, ValidationErrorEntry)
                /\ PR_Next
                /\ UNCHANGED errors
           ELSE /\ errors' = Append(errors, ErrorEntry("SchemaError"))
                /\ PR_Next
                /\ UNCHANGED validation_errors
    /\ UNCHANGED << caller, pipeline_vars, db, results, http_status, fd_vars >>
    /\ UNCHANGED message

PR_Transform_AsValidationError ==
    /\ caller \in BatchCallers
    /\ pc = "pr_transform"
    /\ trace' = [trace EXCEPT ![i].transform = @ + 1]
    /\ IF TransformRaises(records[i])
       THEN /\ validation_errors' =
                  Append(validation_errors, ValidationErrorEntry)
            /\ PR_Next
            /\ UNCHANGED errors
       ELSE /\ transformed_data' =
                  Transform(SCHEMA_REGISTRY(schema_name), records[i])
            /\ pc' = "pr_create"
            /\ UNCHANGED << i, db_item, errors, validation_errors >>
    /\ UNCHANGED << caller, pipeline_vars, db, results, http_status, fd_vars >>
    /\ UNCHANGED message

\* Line 190: schema_config["transform"](record).
PR_Transform ==
    /\ caller \in BatchCallers
    /\ pc = "pr_transform"
    /\ trace' = [trace EXCEPT ![i].transform = @ + 1]
    /\ IF TransformRaises(records[i])
       THEN /\ errors' = Append(errors, ErrorEntry("AttributeError"))
            /\ PR_Next
       ELSE /\ transformed_data' =
                  Transform(SCHEMA_REGISTRY(schema_name), records[i])
            /\ pc' = "pr_create"
            /\ UNCHANGED << i, db_item, errors >>
    /\ UNCHANGED << caller, pipeline_vars, db, results, validation_errors,
                    http_status, fd_vars >>
    /\ UNCHANGED message

\* Lines 191-199: db_item = await repo.create({...}, refresh_fields=["id"]).
PR_Create ==
    /\ caller \in BatchCallers
    /\ pc = "pr_create"
    /\ \E o \in CreateOutcomes :
          LET row == Row(SCHEMA_REGISTRY(schema_name), records[i],
                         transformed_data)
          IN  /\ db' = RepoCreate(o, row)
              /\ trace' = [trace EXCEPT
                              ![i].create = @ + 1,
                              ![i].created = o,
                              ![i].id = IF o = "commit_failed" THEN 0 ELSE row.id]
              /\ IF CreateReturned(o)
                 THEN /\ db_item' = row.id
                      /\ pc' = "pr_forward"
                      /\ UNCHANGED << i, transformed_data, errors >>
                 ELSE /\ errors' = Append(errors, ErrorEntry("DatabaseError"))
                      /\ PR_Next
    /\ UNCHANGED << caller, pipeline_vars, results, validation_errors,
                    http_status, fd_vars >>
    /\ UNCHANGED message

\* Line 200, the call: await forward_data(transformed_data, destination_url).
PR_Forward ==
    /\ caller \in BatchCallers
    /\ pc = "pr_forward"
    /\ trace' = [trace EXCEPT ![i].forward = @ + 1]
    /\ CallForward(SCHEMA_REGISTRY(schema_name))
    /\ pc' = "fd_entry"
    /\ UNCHANGED << caller, pipeline_vars, i, transformed_data, db, db_item,
                    results, validation_errors, errors, http_status >>
    /\ UNCHANGED message

\* Which bucket line 200-207 puts the record in once forward_data is over:
\* the value forward_data returns is not looked at, only an exception
\* diverts to the except clause.
BucketAfterForward(o) ==
    IF o.kind = "raise" THEN "errors" ELSE "results"

PR_AfterForward_Prepend ==
    /\ caller \in BatchCallers
    /\ pc = "fd_exit"
    /\ trace' = [trace EXCEPT ![i].delivery = DeliveryOf(outcome)]
    /\ IF BucketAfterForward(outcome) = "results"
       THEN /\ results' = << SuccessEntry >> \o results
            /\ UNCHANGED errors
       ELSE /\ errors' = << ErrorEntry(outcome.exc) >> \o errors
            /\ UNCHANGED results
    /\ PR_Next
    /\ DropFrame
    /\ UNCHANGED << caller, pipeline_vars, db, validation_errors, http_status >>
    /\ UNCHANGED message

\* Lines 200-207, after the call: results.append or the except clause.
PR_AfterForward ==
    /\ caller \in BatchCallers
    /\ pc = "fd_exit"
    /\ trace' = [trace EXCEPT ![i].delivery = DeliveryOf(outcome)]
    /\ IF BucketAfterForward(outcome) = "results"
       THEN /\ results' = Append(results, SuccessEntry)
            /\ UNCHANGED errors
       ELSE /\ errors' = Append(errors, ErrorEntry(outcome.exc))
            /\ UNCHANGED results
    /\ PR_Next
    /\ DropFrame
    /\ UNCHANGED << caller, pipeline_vars, db, validation_errors, http_status >>
    /\ UNCHANGED message

\* Lines 209-213: the loop is over, the three buckets are returned.
PR_Return ==
    /\ caller \in BatchCallers
    /\ pc = "pr_validate"
    /\ i > Len(records)
    /\ pc' = "done"
    /\ UNCHANGED << caller, pipeline_vars, i, transformed_data, db, db_item,
                    results, validation_errors, errors, http_status, fd_vars,
                    trace >>
    /\ UNCHANGED message

(***************************************************************************)
(* receive_data                                                            *)
(***************************************************************************)
\* get_schema_by_name: the document, a 404, another HTTP error status, or
\* any other exception.
SchemaFetchOutcomes ==
    {"ok", "not_found", "http_error", "error"}

\* The except clauses after get_schema_by_name: 404 for a 404 of the schema
\* source, 502 for any other failure.
SchemaFetchStatus(f) ==
    IF f = "not_found" THEN 404 ELSE 502

Respond(status) ==
    /\ http_status' = status
    /\ pc' = "done"

\* Lines 163-177: fetch the schema and validate the payload against it.
RD_GetSchema ==
    /\ caller = "receive_data"
    /\ pc = "rd_schema"
    /\ IF schema_source # "ok"
       THEN Respond(SchemaFetchStatus(schema_source)) /\ UNCHANGED trace
       ELSE /\ trace' = [trace EXCEPT ![i].validate = @ + 1]
            /\ LET v == ValidateResult(records[i], schema)
               IN  IF v = "ok"
                   THEN pc' = "rd_lookup" /\ UNCHANGED http_status
                   ELSE IF v = "validation_error"
                   THEN Respond(422)
                   ELSE Respond(502)
    /\ UNCHANGED << caller, pipeline_vars, i, transformed_data, db, db_item,
                    results, validation_errors, errors, fd_vars >>
    /\ UNCHANGED message

\* Lines 179-183: SCHEMA_REGISTRY.get(schema_name).
RD_Lookup ==
    /\ caller = "receive_data"
    /\ pc = "rd_lookup"
    /\ IF schema_name \in RegisteredNames
       THEN pc' = "rd_transform" /\ UNCHANGED http_status
       ELSE Respond(400)
    /\ UNCHANGED << caller, pipeline_vars, i, transformed_data, db, db_item,
                    results, validation_errors, errors, fd_vars, trace >>
    /\ UNCHANGED message

\* Lines 185-188: schema_config["transform"](payload).
RD_Transform ==
    /\ caller = "receive_data"
    /\ pc = "rd_transform"
    /\ trace' = [trace EXCEPT ![i].transform = @ + 1]
    /\ IF TransformRaises(records[i])
       THEN Respond(500) /\ UNCHANGED transformed_data
       ELSE /\ transformed_data' =
                  Transform(SCHEMA_REGISTRY(schema_name), records[i])
            /\ pc' = "rd_create"
            /\ UNCHANGED http_status
    /\ UNCHANGED << caller, pipeline_vars, i, db, db_item, results,
                    validation_errors, errors, fd_vars >>
    /\ UNCHANGED message

\* The row receive_data stores: schema_name is the path parameter.
ReceiveRow ==
    [Row(SCHEMA_REGISTRY(schema_name), records[i], transformed_data)
        EXCEPT !.schema_name = schema_name]

\* Lines 190-202: db_item = await repo.create({...}, refresh_fields=["id"]).
RD_Create ==
    /\ caller = "receive_data"
    /\ pc = "rd_create"
    /\ \E o \in CreateOutcomes :
          /\ db' = RepoCreate(o, ReceiveRow)
          /\ trace' = [trace EXCEPT
                          ![i].create = @ + 1,
                          ![i].created = o,
                          ![i].id = IF o = "commit_failed"
                                    THEN 0 ELSE ReceiveRow.id]
          /\ IF CreateReturned(o)
             THEN /\ db_item' = ReceiveRow.id
                  /\ pc' = "rd_forward"
                  /\ UNCHANGED http_status
             ELSE Respond(500) /\ UNCHANGED db_item
    /\ UNCHANGED << caller, pipeline_vars, i, transformed_data, results,
                    validation_errors, errors, fd_vars >>
    /\ UNCHANGED message

\* Lines 204-205, the call: await forward_data(transformed_data, destination_url).
RD_Forward ==
    /\ caller = "receive_data"
    /\ pc = "rd_forward"
    /\ trace' = [trace EXCEPT ![i].forward = @ + 1]
    /\ CallForward(SCHEMA_REGISTRY(schema_name))
    /\ pc' = "fd_entry"
    /\ UNCHANGED << caller, pipeline_vars, i, transformed_data, db, db_item,
                    results, validation_errors, errors, http_status >>
    /\ UNCHANGED message

\* Lines 204-209, after the call: 502 if forward_data raised, else the
\* success message.
RD_AfterForward ==
    /\ caller = "receive_data"
    /\ pc = "fd_exit"
    /\ trace' = [trace EXCEPT ![i].delivery = DeliveryOf(outcome)]
    /\ IF outcome.kind = "raise" THEN Respond(502) ELSE Respond(200)
    /\ DropFrame
    /\ UNCHANGED << caller, pipeline_vars, i, transformed_data, db, db_item,
                    results, validation_errors, errors >>
    /\ UNCHANGED message

(***************************************************************************)
(* fetch_data_from_api                                                     *)
(***************************************************************************)
\* JSON documents a source API answers with: a list of records, a dict, or
\* any other value.
JsonList(items) ==
    [kind |-> "list", fields |-> {}, items |-> items]

JsonDict(keys) ==
    [kind |-> "dict", fields |-> keys, items |-> << >>]

JsonScalar ==
    [kind |-> "scalar", fields |-> {}, items |-> << >>]

BodyKeys ==
    {"data", "results", "items", "name"}

\* data[key]: each key of a dict body holds its own one-record list.
ValueUnder(key) ==
    << DictRecord({key}) >>

\* The body taken as one record, as `[data]` wraps it.
AsRecord(body) ==
    IF body.kind = "dict" THEN DictRecord(body.fields) ELSE ScalarRecord

Normalize_ResultsFirst(body) ==
    IF body.kind = "list" THEN body.items
    ELSE IF body.kind = "dict" /\ "results" \in body.fields
    THEN ValueUnder("results")
    ELSE IF body.kind = "dict" /\ "data" \in body.fields
    THEN ValueUnder("data")
    ELSE IF body.kind = "dict" /\ "items" \in body.fields
    THEN ValueUnder("items")
    ELSE << AsRecord(body) >>

\* Lines 104-117: the list made of the parsed response.
Normalize(body) ==
    IF body.kind = "list" THEN body.items
    ELSE IF body.kind = "dict" /\ "data" \in body.fields
    THEN ValueUnder("data")
    ELSE IF body.kind = "dict" /\ "results" \in body.fields
    THEN ValueUnder("results")
    ELSE IF body.kind = "dict" /\ "items" \in body.fields
    THEN ValueUnder("items")
    ELSE << AsRecord(body) >>

\* The list a successful GET hands back: the records of the source.
FetchedList ==
    [kind |-> "list", exc |-> None, success |-> TRUE, status_code |-> 200,
     content |-> "records", error_message |-> None]

\* How lines 100-157 treat the result r of one GET, rfs telling whether
\* raise_for_status (called for every response) raises for r.status:
\*   "retry"        leaves the except clause (HTTPStatusError with a status
\*                  of retry_status_codes, RequestError, TimeoutException)
\*   "nonretryable" returns ResponseData(success=False) with the status
\*   "unexpected"   returns ResponseData(success=False), status 500:
\*                  response.json() raises on a body that is not JSON
\*   "success"      returns the normalised list
FA_Classify(rc, r, rfs) ==
    IF r.kind = "network" THEN "retry"
    ELSE IF r.kind = "unexpected" THEN "unexpected"
    ELSE IF rfs /\ r.status \in rc.retry_status_codes THEN "retry"
    ELSE IF rfs THEN "nonretryable"
    ELSE IF r.body = "json" THEN "success"
    ELSE "unexpected"

\* What a terminal GET makes the function return.
FA_TerminalOutcome(class, r) ==
    IF class = "success" THEN FetchedList
    ELSE IF class = "nonretryable"
    THEN ResponseData(FALSE, r.status, RawContent(r.body), "HTTP error")
    ELSE ResponseData(FALSE, 500, None, "Unexpected error")

\* Lines 164-175: the return that follows the retry sleep. It is indented
\* into the while loop, so it ends the call after the first failed attempt.
FA_GiveUp(exc) ==
    ResponseData(FALSE, ExhaustedStatusCode(exc), None, MaxRetriesMessage)

\* Where control goes after a retryable failure of attempt n (lines 159-175):
\* the sleep if n < max_attempts, and in both cases the give-up return.
FA_AfterRetryable(n, max) ==
    IF n < max THEN "fa_sleep" ELSE "fa_exit"

\* Lines 87-157: one pass of the while loop up to the sleep.
FA_Attempt ==
    /\ pc = "fa_loop"
    /\ attempt < retry_config.max_attempts
    /\ \E r \in PostOutcomes :
       \E rfs \in (IF r.kind = "response" THEN RaiseForStatus(r.status) ELSE {FALSE}) :
          LET class == FA_Classify(retry_config, r, rfs)
              n == attempt + 1
          IN  /\ attempt' = n
              /\ get_log' = Append(get_log, r)
              /\ fetched' = IF class = "success"
                            THEN Normalize(source_body) ELSE fetched
              /\ last_exception' =
                    IF class = "success" THEN last_exception ELSE ExceptionOf(r)
              /\ IF class # "retry"
                 THEN /\ outcome' = FA_TerminalOutcome(class, r)
                      /\ pc' = "fa_exit"
                 ELSE /\ pc' = FA_AfterRetryable(n, retry_config.max_attempts)
                      /\ outcome' = IF n < retry_config.max_attempts
                                    THEN outcome
                                    ELSE FA_GiveUp(ExceptionOf(r))
    /\ UNCHANGED << caller, pipeline_vars, i, transformed_data, db, db_item,
                    results, validation_errors, errors, http_status, message,
                    url, data, auth_handler, retry_config, post_log, headers,
                    request_headers, sent, sleeps, auth_calls, delays, trace >>

\* Lines 159-175: await asyncio.sleep(delay), then the give-up return.
FA_Sleep ==
    /\ pc = "fa_sleep"
    /\ sleeps' = Append(sleeps, attempt)
    /\ delays' = Append(delays, Delay(retry_config, attempt))
    /\ outcome' = FA_GiveUp(last_exception)
    /\ pc' = "fa_exit"
    /\ UNCHANGED << caller, pipeline_vars, i, transformed_data, db, db_item,
                    results, validation_errors, errors, http_status, message,
                    url, data, auth_handler, retry_config, attempt,
                    last_exception, post_log, get_log, fetched, headers,
                    request_headers, sent, auth_calls, trace >>

\* fetch_data_from_api(source_url, params=None): the defaults of the other
\* parameters apply.
CallFetch(source_url) ==
    /\ url' = source_url
    /\ data' = NoData
    /\ auth_handler' = None
    /\ retry_config' = DefaultRetryConfig
    /\ attempt' = 0
    /\ last_exception' = NoException
    /\ outcome' = NoOutcome
    /\ post_log' = << >>
    /\ get_log' = << >>
    /\ fetched' = << >>
    /\ headers' = NoHeaders
    /\ request_headers' = {}
    /\ sent' = << >>
    /\ sleeps' = << >>
    /\ auth_calls' = 0
    /\ delays' = << >>

(***************************************************************************)
(* upload_file and fetch_data                                              *)
(***************************************************************************)
\* The endpoint answers: a status and the message (or error detail) it carries.
Reply(status, msg) ==
    /\ http_status' = status
    /\ message' = msg
    /\ pc' = "responded"

Aggregate_AnyFailureIsError(nresults, nvalidation, nerrors) ==
    IF nvalidation # 0 \/ nerrors # 0
    THEN [status |-> 400, message |-> "none_processed"]
    ELSE [status |-> 200, message |-> "all"]

\* main.py lines 133-154 and 248-269: the response as decided from the
\* lengths of the three buckets.
Aggregate(nresults, nvalidation, nerrors) ==
    IF nresults = 0
    THEN [status |-> 400, message |-> "none_processed"]
    ELSE IF nvalidation # 0 \/ nerrors # 0
    THEN [status |-> 200, message |-> "partial"]
    ELSE [status |-> 200, message |-> "all"]

\* Lines 218-227: get_schema_by_name and its except clauses.
UP_GetSchema ==
    /\ caller = "upload_file"
    /\ pc = "up_schema"
    /\ IF schema_source = "ok"
       THEN pc' = "up_lookup" /\ UNCHANGED << http_status, message >>
       ELSE Reply(SchemaFetchStatus(schema_source), "schema_fetch_failed")
    /\ UNCHANGED << caller, pipeline_vars, i, transformed_data, db, db_item,
                    results, validation_errors, errors, fd_vars, trace >>

\* Lines 229-234: SCHEMA_REGISTRY.get(schema_name).
UP_Lookup ==
    /\ caller = "upload_file"
    /\ pc = "up_lookup"
    /\ IF schema_name \in RegisteredNames
       THEN pc' = "up_file" /\ UNCHANGED << http_status, message >>
       ELSE Reply(400, "no_config")
    /\ UNCHANGED << caller, pipeline_vars, i, transformed_data, db, db_item,
                    results, validation_errors, errors, fd_vars, trace >>

\* process_file: the rows of the file, or an exception (unsupported
\* extension, undecodable content).
FileOutcomes ==
    {"parsed", "raises"}

\* Lines 236-246: read and parse the file, then call process_records.
UP_ReadFile ==
    /\ caller = "upload_file"
    /\ pc = "up_file"
    /\ \E f \in FileOutcomes :
          IF f = "parsed"
          THEN pc' = "pr_validate" /\ UNCHANGED << http_status, message >>
          ELSE Reply(400, "bad_file")
    /\ UNCHANGED << caller, pipeline_vars, i, transformed_data, db, db_item,
                    results, validation_errors, errors, fd_vars, trace >>

\* Lines 248-269: the response once process_records has returned.
UP_Respond ==
    /\ caller = "upload_file"
    /\ pc = "done"
    /\ LET a == Aggregate(Len(results), Len(validation_errors), Len(errors))
       IN  Reply(a.status, a.message)
    /\ UNCHANGED << caller, pipeline_vars, i, transformed_data, db, db_item,
                    results, validation_errors, errors, fd_vars, trace >>

\* Lines 90-99: get_schema_by_name and its except clauses.
FT_GetSchema ==
    /\ caller = "fetch_data"
    /\ pc = "ft_schema"
    /\ IF schema_source = "ok"
       THEN pc' = "ft_lookup" /\ UNCHANGED << http_status, message >>
       ELSE Reply(SchemaFetchStatus(schema_source), "schema_fetch_failed")
    /\ UNCHANGED << caller, pipeline_vars, i, transformed_data, db, db_item,
                    results, validation_errors, errors, fd_vars, trace >>

\* Lines 101-105: SCHEMA_REGISTRY.get(schema_name).
FT_Lookup ==
    /\ caller = "fetch_data"
    /\ pc = "ft_lookup"
    /\ IF schema_name \in RegisteredNames
       THEN pc' = "ft_fetch" /\ UNCHANGED << http_status, message >>
       ELSE Reply(400, "no_config")
    /\ UNCHANGED << caller, pipeline_vars, i, transformed_data, db, db_item,
                    results, validation_errors, errors, fd_vars, trace >>

\* Lines 108-124, up to the call: an empty source_url raises HTTPException
\* inside the try, and `except Exception` turns it into a 502.
FT_Fetch ==
    /\ caller = "fetch_data"
    /\ pc = "ft_fetch"
    /\ LET source_url == SCHEMA_REGISTRY(schema_name).source_url
       IN  IF source_url = ""
           THEN Reply(502, "fetch_failed") /\ UNCHANGED fd_vars
           ELSE /\ CallFetch(source_url)
                /\ pc' = "fa_loop"
                /\ UNCHANGED << http_status, message >>
    /\ UNCHANGED << caller, pipeline_vars, i, transformed_data, db, db_item,
                    results, validation_errors, errors, trace >>

\* Lines 115-131 once fetch_data_from_api has returned: a list is checked for
\* emptiness and handed to process_records; a ResponseData (the failure
\* value) is truthy and has no len(), so line 126 raises TypeError, which
\* nothing catches: the framework answers 500.
FT_AfterFetch ==
    /\ caller = "fetch_data"
    /\ pc = "fa_exit"
    /\ IF outcome.kind # "list"
       THEN Reply(500, "internal_error")
       ELSE IF Len(fetched) = 0
       THEN Reply(200, "no_records")
       ELSE pc' = "pr_validate" /\ UNCHANGED << http_status, message >>
    /\ DropFrame
    /\ UNCHANGED << caller, pipeline_vars, i, transformed_data, db, db_item,
                    results, validation_errors, errors, trace >>

\* Lines 133-154: the response once process_records has returned.
FT_Respond ==
    /\ caller = "fetch_data"
    /\ pc = "done"
    /\ LET a == Aggregate(Len(results), Len(validation_errors), Len(errors))
       IN  Reply(a.status, a.message)
    /\ UNCHANGED << caller, pipeline_vars, i, transformed_data, db, db_item,
                    results, validation_errors, errors, fd_vars, trace >>

(***************************************************************************)
(* The runs                                                                *)
(***************************************************************************)
Batches ==
    UNION {[1..n -> RecordDomain] : n \in 0..MaxRecords}

Payloads ==
    {r \in RecordDomain : r.kind = "dict"}

IdleFrame ==
    /\ url = ""
    /\ data = NoData
    /\ auth_handler = None
    /\ retry_config = DefaultRetryConfig
    /\ attempt = 0
    /\ last_exception = NoException
    /\ outcome = NoOutcome
    /\ post_log = << >>
    /\ get_log = << >>
    /\ fetched = << >>
    /\ headers = headers_arg
    /\ request_headers = {}
    /\ sent = << >>
    /\ sleeps = << >>
    /\ auth_calls = 0
    /\ delays = << >>

EmptyStore ==
    /\ transformed_data = NoData
    /\ db = << >>
    /\ db_item = 0
    /\ results = << >>
    /\ validation_errors = << >>
    /\ errors = << >>
    /\ http_status = 0
    /\ message = None

\* process_records(records, schema, schema_config, repo) called on its own:
\* schema_config is an entry of the registry.
InitBatch ==
    /\ caller = "process_records"
    /\ pc = "pr_validate"
    /\ schema_name \in RegisteredNames
    /\ schema_source = "ok"
    /\ schema \in SchemaDomain
    /\ contact_source_url = ""
    /\ contact_destination_url \in DestinationUrls
    /\ source_body = JsonList(<< >>)
    /\ records \in Batches
    /\ headers_arg = NoHeaders
    /\ i = 1
    /\ trace = [k \in 1..Len(records) |-> NoTrace]
    /\ EmptyStore
    /\ IdleFrame

\* receive_data(schema_name, payload, db): the payload is a JSON object.
InitSingle ==
    /\ caller = "receive_data"
    /\ pc = "rd_schema"
    /\ schema_name \in SchemaNames
    /\ schema_source \in SchemaFetchOutcomes
    /\ schema \in SchemaDomain
    /\ contact_source_url = ""
    /\ contact_destination_url \in DestinationUrls
    /\ source_body = JsonList(<< >>)
    /\ records \in {<< p >> : p \in Payloads}
    /\ headers_arg = NoHeaders
    /\ i = 1
    /\ trace = << NoTrace >>
    /\ EmptyStore
    /\ IdleFrame

\* forward_data(data, url, auth_handler, retry_config) called on its own.
InitDirect ==
    /\ caller = "forward_data"
    /\ pc = "fd_entry"
    /\ schema_name = "contact-message-schema"
    /\ schema_source = "ok"
    /\ schema = ContactSchema
    /\ contact_source_url = ""
    /\ contact_destination_url = ""
    /\ source_body = JsonList(<< >>)
    /\ records = << >>
    /\ headers_arg \in HeaderArgs
    /\ i = 0
    /\ trace = << >>
    /\ EmptyStore
    /\ url \in {"", "https://dest"}
    /\ data = transform_contact_message(DictRecord(Fields))
    /\ auth_handler \in AuthHandlers
    /\ retry_config \in RetryConfigs \cup {DefaultRetryConfig}
    /\ attempt = 0
    /\ last_exception = NoException
    /\ outcome = NoOutcome
    /\ post_log = << >>
    /\ get_log = << >>
    /\ fetched = << >>
    /\ headers = headers_arg
    /\ request_headers = {}
    /\ sent = << >>
    /\ sleeps = << >>
    /\ auth_calls = 0
    /\ delays = << >>

\* The rows process_file returns are dicts.
FileBatches ==
    UNION {[1..n -> Payloads] : n \in 0..MaxRecords}

SourceUrls ==
    {"", "https://contact.source"}

\* The documents of a source: the lists of the given batches, the dicts over
\* BodyKeys, and a value that is neither.
SourceBodies(batches) ==
    {JsonList(b) : b \in batches}
        \cup {JsonDict(ks) : ks \in SUBSET BodyKeys}
        \cup {JsonScalar}

\* upload_file(schema_name, file, db): records are the rows of the file.
InitUpload ==
    /\ caller = "upload_file"
    /\ pc = "up_schema"
    /\ schema_name \in SchemaNames
    /\ schema_source \in SchemaFetchOutcomes
    /\ schema \in SchemaDomain
    /\ contact_source_url = ""
    /\ contact_destination_url \in DestinationUrls
    /\ source_body = JsonList(<< >>)
    /\ records \in FileBatches
    /\ headers_arg = NoHeaders
    /\ i = 1
    /\ trace = [k \in 1..Len(records) |-> NoTrace]
    /\ EmptyStore
    /\ IdleFrame

\* fetch_data(schema_name, db): records are the list the response of the
\* source API normalises to.
InitFetch ==
    /\ caller = "fetch_data"
    /\ pc = "ft_schema"
    /\ schema_name \in SchemaNames
    /\ schema_source \in SchemaFetchOutcomes
    /\ schema \in SchemaDomain
    /\ contact_source_url \in SourceUrls
    /\ contact_destination_url \in DestinationUrls
    /\ source_body \in SourceBodies(Batches)
    /\ records = Normalize(source_body)
    /\ headers_arg = NoHeaders
    /\ i = 1
    /\ trace = [k \in 1..Len(records) |-> NoTrace]
    /\ EmptyStore
    /\ IdleFrame

\* fetch_data_from_api(source_url, retry_config=...) called on its own.
InitFetchApi ==
    /\ caller = "fetch_data_from_api"
    /\ pc = "fa_loop"
    /\ schema_name = "contact-message-schema"
    /\ schema_source = "ok"
    /\ schema = ContactSchema
    /\ contact_source_url = "https://contact.source"
    /\ contact_destination_url = ""
    /\ source_body \in SourceBodies({<< >>, << DictRecord(Fields) >>})
    /\ records = Normalize(source_body)
    /\ headers_arg = NoHeaders
    /\ i = 1
    /\ trace = [k \in 1..Len(records) |-> NoTrace]
    /\ EmptyStore
    /\ url = contact_source_url
    /\ data = NoData
    /\ auth_handler = None
    /\ retry_config \in RetryConfigs \cup {DefaultRetryConfig}
    /\ attempt = 0
    /\ last_exception = NoException
    /\ outcome = NoOutcome
    /\ post_log = << >>
    /\ get_log = << >>
    /\ fetched = << >>
    /\ headers = headers_arg
    /\ request_headers = {}
    /\ sent = << >>
    /\ sleeps = << >>
    /\ auth_calls = 0
    /\ delays = << >>

Init ==
    \/ InitBatch
    \/ InitSingle
    \/ InitDirect
    \/ InitUpload
    \/ InitFetch
    \/ InitFetchApi

Next ==
    \/ FD_Entry
    \/ FD_Attempt
    \/ FD_Sleep
    \/ PR_Validate
    \/ PR_Transform
    \/ PR_Create
    \/ PR_Forward
    \/ PR_AfterForward
    \/ PR_Return
    \/ RD_GetSchema
    \/ RD_Lookup
    \/ RD_Transform
    \/ RD_Create
    \/ RD_Forward
    \/ RD_AfterForward
    \/ FA_Attempt
    \/ FA_Sleep
    \/ UP_GetSchema
    \/ UP_Lookup
    \/ UP_ReadFile
    \/ UP_Respond
    \/ FT_GetSchema
    \/ FT_Lookup
    \/ FT_Fetch
    \/ FT_AfterFetch
    \/ FT_Respond

(***************************************************************************)
(* Cancellation of the task that runs the call                             *)
(***************************************************************************)
PR_Cancelled_Caught ==
    /\ errors' = Append(errors, ErrorEntry("CancelledError"))
    /\ PR_Next

\* asyncio.CancelledError raised at an await of the loop body of
\* process_records (or, further down, of forward_data): it derives from
\* BaseException, so neither `except ValidationError` nor `except Exception`
\* catches it, and it leaves the function.
PR_Cancelled ==
    /\ pc' = "cancelled"
    /\ UNCHANGED << i, transformed_data, db_item, errors >>

\* The same for the callers that have no bucket: receive_data (`except
\* Exception` at main.py 201 and 206) and a direct call.
Propagate ==
    IF caller \in BatchCallers
    THEN PR_Cancelled
    ELSE pc' = "cancelled" /\ UNCHANGED << i, transformed_data, db_item, errors >>

\* History: the await of the record being processed was cancelled.
MarkCancelled(field) ==
    IF caller \in BatchCallers \cup {"receive_data"}
    THEN [trace EXCEPT ![i][field] = "cancelled"]
    ELSE trace

\* The task is cancelled while it awaits repo.create: the commit may or may
\* not have gone through.
CancelInCreate ==
    /\ pc \in {"pr_create", "rd_create"}
    /\ \E committed \in BOOLEAN :
          LET row == IF caller = "receive_data"
                     THEN ReceiveRow
                     ELSE Row(SCHEMA_REGISTRY(schema_name), records[i],
                              transformed_data)
          IN  /\ db' = IF committed THEN Append(db, row) ELSE db
              /\ trace' = [trace EXCEPT
                              ![i].create = @ + 1,
                              ![i].created = "cancelled",
                              ![i].id = IF committed THEN row.id ELSE 0]
    /\ Propagate
    /\ UNCHANGED << caller, pipeline_vars, results, validation_errors,
                    http_status, message, fd_vars >>

\* The task is cancelled while forward_data awaits client.post (lines
\* 308-311): the attempt was counted (line 297), no except clause of lines
\* 328-366 catches the CancelledError.
CancelInPost ==
    /\ pc = "fd_loop"
    /\ attempt < retry_config.max_attempts
    /\ attempt' = attempt + 1
    /\ outcome' = Raised("CancelledError")
    /\ trace' = MarkCancelled("delivery")
    /\ Propagate
    /\ UNCHANGED << caller, pipeline_vars, db, results, validation_errors,
                    http_status, message, url, data, auth_handler,
                    retry_config, last_exception, post_log, get_log, fetched,
                    headers, request_headers, sent, sleeps, auth_calls,
                    delays >>

\* The task is cancelled while forward_data awaits asyncio.sleep (line 371).
CancelInSleep ==
    /\ pc = "fd_sleep"
    /\ outcome' = Raised("CancelledError")
    /\ trace' = MarkCancelled("delivery")
    /\ Propagate
    /\ UNCHANGED << caller, pipeline_vars, db, results, validation_errors,
                    http_status, message, url, data, auth_handler,
                    retry_config, attempt, last_exception, post_log, get_log,
                    fetched, headers, request_headers, sent, sleeps,
                    auth_calls, delays >>

Cancel ==
    \/ CancelInCreate
    \/ CancelInPost
    \/ CancelInSleep

Spec ==
    Init /\ [][Next]_vars

\* The event loop runs the coroutine on as long as each await completes.
FairSpec ==
    Spec /\ WF_vars(Next)

\* The runs in which the caller may cancel the task at any await.
CancelSpec ==
    Init /\ [][Next \/ Cancel]_vars

(***************************************************************************)
(* Properties                                                              *)
(***************************************************************************)
Range(f) ==
    {f[k] : k \in DOMAIN f}

Positions ==
    1..Len(records)

\* Record k does not satisfy the schema (jsonschema raises ValidationError).
FailsValidation(k) ==
    schema.wellformed /\ ~Conforms(records[k], schema)

InResults(k) ==
    trace[k].id # 0 /\ \E e \in Range(results) : e.id = trace[k].id

InValidationErrors(k) ==
    \E e \in Range(validation_errors) : e.record = k

InErrors(k) ==
    \E e \in Range(errors) : e.record = k

Persisted(k) ==
    trace[k].id # 0 /\ \E row \in Range(db) : row.id = trace[k].id

\* A forward_data call is in progress or has just ended.
InForward ==
    pc \in {"fd_entry", "fd_loop", "fd_sleep", "fd_exit"}

Returned ==
    pc = "fd_exit" /\ outcome.kind = "return"

Exhausted ==
    Returned /\ ~outcome.success /\ outcome.error_message = MaxRetriesMessage

\* C1: a record that fails schema validation gets no transform call, no
\* repo.create call, no forward_data call and no POST, and no row is stored
\* for it, in process_records and in receive_data alike.
C1_ValidationShortCircuits ==
    \A k \in Positions :
        FailsValidation(k) =>
            /\ trace[k].transform = 0
            /\ trace[k].create = 0
            /\ trace[k].forward = 0
            /\ trace[k].post = 0
            /\ ~Persisted(k)
            /\ (i = k => ~InForward /\ pc \notin {"pr_transform", "pr_create",
                    "pr_forward", "rd_lookup", "rd_transform", "rd_create",
                    "rd_forward"})

C1_Witness ==
    /\ pc = "done"
    /\ caller = "process_records"
    /\ \E k \in Positions :
          FailsValidation(k) /\ trace[k].validate = 1 /\ InValidationErrors(k)
    /\ \E k \in Positions : trace[k].post > 0

\* C2: in process_records a record is listed as a success only if its
\* delivery ended with success=true, and a record whose delivery failed
\* (returned success=false, or raised) is listed in errors.
C2_SuccessOnlyIfDelivered ==
    caller = "process_records" =>
        \A k \in Positions :
            /\ InResults(k) => trace[k].delivery = "success"
            /\ trace[k].delivery \in {"failure", "raised"} => InErrors(k)

\* C3: when process_records returns, every record is in exactly one bucket,
\* the sizes sum to K, validation_errors holds the V records that failed
\* validation, results the S records that went through (validated, stored
\* and delivered) and errors the E = K - V - S others.
C3_BucketsMatchOutcomes ==
    (caller = "process_records" /\ pc = "done") =>
        LET K == Len(records)
            V == Cardinality({k \in Positions : FailsValidation(k)})
            S == Cardinality({k \in Positions : trace[k].delivery = "success"})
        IN  /\ Len(results) + Len(validation_errors) + Len(errors) = K
            /\ \A k \in Positions :
                  /\ InResults(k) \/ InValidationErrors(k) \/ InErrors(k)
                  /\ ~(InResults(k) /\ InValidationErrors(k))
                  /\ ~(InResults(k) /\ InErrors(k))
                  /\ ~(InValidationErrors(k) /\ InErrors(k))
            /\ Len(validation_errors) = V
            /\ Len(results) = S
            /\ Len(errors) = K - V - S

\* C4: a call whose every attempt got a status listed in retry_status_codes
\* ends after exactly max_attempts POSTs and max_attempts - 1 sleeps (one
\* after each attempt but the last) with success=false and the
\* maximum-retries message.
AlwaysRetryableStatus ==
    /\ post_log # << >>
    /\ \A k \in 1..Len(post_log) :
          /\ post_log[k].kind = "response"
          /\ post_log[k].status \in retry_config.retry_status_codes

C4_RetryableStatusExhausts ==
    (pc = "fd_exit" /\ AlwaysRetryableStatus) =>
        /\ Len(post_log) = retry_config.max_attempts
        /\ sleeps = [k \in 1..(retry_config.max_attempts - 1) |-> k]
        /\ Exhausted

\* C5: an attempt that gets a status >= 400 outside retry_status_codes is the
\* last one: no sleep and no attempt follows it, and the call returns
\* success=false with that status code and the response body.
NonRetryableStatus(r) ==
    /\ r.kind = "response"
    /\ r.status >= 400
    /\ r.status \notin retry_config.retry_status_codes

C5_WitnessFirstAttempt ==
    /\ pc = "fd_exit"
    /\ Len(post_log) = 1
    /\ NonRetryableStatus(post_log[1])
    /\ post_log[1].status = 404
    /\ retry_config.max_attempts > 1

\* C6: a network-level failure is retried whatever retry_status_codes holds:
\* after such an attempt that is not the last one the call sleeps and loops
\* (it never returns), after the last one it returns the exhausted outcome;
\* so a destination that always fails at network level gets max_attempts
\* attempts.
C6_NetworkFailureRetried ==
    /\ \A k \in 1..Len(post_log) :
          post_log[k].kind = "network" =>
              IF k < retry_config.max_attempts
              THEN \/ k = Len(post_log) /\ pc = "fd_sleep" /\ attempt = k
                   \/ k = Len(post_log) /\ pc = "fd_loop" /\ attempt = k
                        /\ k \in Range(sleeps)
                   \/ k < Len(post_log) /\ k \in Range(sleeps)
              ELSE k = Len(post_log) /\ Exhausted
    /\ pc = "fd_loop" => attempt < retry_config.max_attempts

C6_Witness ==
    /\ pc = "fd_exit"
    /\ retry_config.retry_status_codes = {}
    /\ retry_config.max_attempts >= 2
    /\ Len(post_log) = retry_config.max_attempts
    /\ \A k \in 1..Len(post_log) : post_log[k].kind = "network"
    /\ Len(sleeps) = retry_config.max_attempts - 1

\* C7, as claimed: the exhausted outcome carries the last status code any
\* attempt of the call obtained, and 0 only if no attempt obtained one.
LastObservedStatus ==
    LET got == {k \in 1..Len(post_log) : post_log[k].kind = "response"}
    IN  IF got = {} THEN 0
        ELSE post_log[CHOOSE k \in got : \A j \in got : j <= k].status

C8_ForwardOnlyAfterCreate ==
    /\ \A k \in Positions :
          /\ (trace[k].forward > 0 \/ trace[k].post > 0) =>
                trace[k].created = "ok" /\ Persisted(k)
          /\ trace[k].created \in {"commit_failed", "refresh_failed"} =>
                trace[k].forward = 0 /\ trace[k].post = 0
    /\ (caller # "forward_data" /\ (InForward \/ pc \in {"pr_forward", "rd_forward"})) =>
          /\ trace[i].created = "ok"
          /\ db_item = trace[i].id
          /\ Persisted(i)

C8_Witness ==
    /\ pc = "done"
    /\ caller = "process_records"
    /\ \E k \in Positions : trace[k].created = "commit_failed" /\ InErrors(k)
    /\ \E k \in Positions : trace[k].created = "ok" /\ trace[k].post > 0

C8_WitnessSingle ==
    /\ pc = "done"
    /\ caller = "receive_data"
    /\ trace[1].created = "commit_failed"
    /\ http_status = 500

\* C9: when the auth handler raises (it is invoked once the url is known to
\* be non-empty), forward_data raises AuthenticationError with no POST and
\* no sleep; the handler runs once, before the first attempt, and never
\* again.
C9_AuthFailureAborts ==
    /\ auth_calls <= 1
    /\ (auth_handler = "raises" /\ url # "" /\ pc # "fd_entry") =>
          /\ pc = "fd_exit"
          /\ outcome = Raised("AuthenticationError")
          /\ auth_calls = 1
          /\ post_log = << >>
          /\ sleeps = << >>
    /\ (auth_handler # None /\ url # "" /\ pc # "fd_entry") => auth_calls = 1

C9_Witness ==
    /\ auth_handler = "raises"
    /\ url # ""
    /\ pc = "fd_exit"
    /\ retry_config.max_attempts >= 2
    /\ auth_calls = 1

C9_WitnessLaterAttempts ==
    /\ auth_handler = "headers"
    /\ Len(post_log) >= 2
    /\ auth_calls = 1

\* C10: with an empty url forward_data raises ValueError at once: the auth
\* handler is not invoked, nothing is posted, nothing sleeps.
C10_EmptyUrlRejected ==
    (url = "" /\ InForward /\ pc # "fd_entry") =>
        /\ pc = "fd_exit"
        /\ outcome = Raised("ValueError")
        /\ auth_calls = 0
        /\ post_log = << >>
        /\ sleeps = << >>

C10_Witness ==
    /\ url = ""
    /\ pc = "fd_exit"
    /\ auth_handler = "raises"
    /\ outcome.exc = "ValueError"

\* Record k is in exactly one of the three buckets.
Classified(k) ==
    /\ InResults(k) \/ InValidationErrors(k) \/ InErrors(k)
    /\ ~(InResults(k) /\ InValidationErrors(k))
    /\ ~(InResults(k) /\ InErrors(k))
    /\ ~(InValidationErrors(k) /\ InErrors(k))

\* C11: process_records does not fail fast: whatever happened to the records
\* before position i, each of them went through validate and is classified,
\* the loop only ends after the last record, and process_records eventually
\* returns.
ProcessedInTurn ==
    caller = "process_records" =>
        /\ \A k \in Positions :
              k < i => trace[k].validate = 1 /\ Classified(k)
        /\ pc = "done" => i = Len(records) + 1

C11_NoFailFast ==
    /\ []ProcessedInTurn
    /\ (caller = "process_records" /\ pc = "pr_validate") ~> (pc = "done")

C11_Witness ==
    /\ caller = "process_records"
    /\ pc = "done"
    /\ Len(records) = 2
    /\ InErrors(1)
    /\ trace[1].created = "commit_failed"
    /\ trace[2].post > 0
    /\ InResults(2)

\* C12: each bucket lists its records in input order.
C12_BucketsInInputOrder ==
    /\ \A a, b \in 1..Len(results) :
          a < b =>
            \E ka, kb \in Positions :
                /\ trace[ka].id = results[a].id
                /\ trace[kb].id = results[b].id
                /\ ka < kb
    /\ \A a, b \in 1..Len(validation_errors) :
          a < b => validation_errors[a].record < validation_errors[b].record
    /\ \A a, b \in 1..Len(errors) :
          a < b => errors[a].record < errors[b].record

C12_Witness ==
    /\ caller = "process_records"
    /\ pc = "done"
    /\ Len(results) = 2
    /\ results[1].id = trace[1].id
    /\ results[2].id = trace[2].id

C12_WitnessErrors ==
    /\ caller = "process_records"
    /\ pc = "done"
    /\ Len(errors) = 2

\* C13: the j-th sleep of a call, which follows attempt k, lasts
\* min(base_delay * backoff_factor^(k-1), max_delay); for every RetryConfig
\* the model accepts the sleeps of one call never decrease and none exceeds
\* max_delay.
SleepFormula(j) ==
    LET k == sleeps[j]
        f == retry_config.backoff_factor
        grown == (retry_config.base_delay * Pow(f.num, k - 1)) \div Pow(f.den, k - 1)
    IN  delays[j] = Min(grown, retry_config.max_delay)

C13_BackoffNonDecreasing ==
    /\ Len(delays) = Len(sleeps)
    /\ \A j \in 1..Len(delays) :
          /\ SleepFormula(j)
          /\ delays[j] <= retry_config.max_delay
    /\ \A a, b \in 1..Len(delays) : a < b => delays[a] <= delays[b]

\* The part of C13 that holds for every accepted RetryConfig.
C13_DelayFormulaAndCap ==
    /\ Len(delays) = Len(sleeps)
    /\ \A j \in 1..Len(delays) :
          /\ SleepFormula(j)
          /\ delays[j] <= retry_config.max_delay
    /\ (retry_config = DefaultRetryConfig /\ Len(delays) = 2) =>
          delays = << 1000, 2000 >>

\* The row committed for record k is still in the table, unchanged.
RowKept(k) ==
    trace[k].id # 0 =>
        /\ trace[k].id <= Len(db)
        /\ db[trace[k].id].id = trace[k].id
        /\ db[trace[k].id].raw_data = records[k]

\* A failed delivery of record k is reported to the caller as a failure.
DeliverySurfaced(k) ==
    trace[k].delivery \in {"failure", "raised"} =>
        IF caller = "process_records" THEN InErrors(k) /\ ~InResults(k)
        ELSE http_status = 502

\* C14: a committed row is never deleted or modified by a later step (a
\* delivery failure included), and a delivery failure is surfaced to the
\* caller, not hidden.
C14_PersistedAndSurfaced ==
    \A k \in Positions : RowKept(k) /\ DeliverySurfaced(k)

\* The part of C14 that holds: committed rows stay, the table only grows.
C14_PersistenceKept ==
    /\ \A k \in Positions : RowKept(k)
    /\ Len(db) = Cardinality({k \in Positions : trace[k].id # 0})

\* A batch endpoint has answered after it obtained the batch (the file was
\* parsed, the source API answered with a list).
BatchAnswered ==
    /\ caller \in BatchEndpoints
    /\ pc = "responded"
    /\ message \in {"no_records", "none_processed", "partial", "all"}

Failed ==
    Len(validation_errors) + Len(errors)

HardError ==
    http_status = 400 /\ message = "none_processed"

PartialSuccess ==
    http_status = 200 /\ message = "partial"

FullSuccess ==
    http_status = 200 /\ message = "all"

\* C15, as claimed: for every batch size, zero included, all records failed
\* gives the hard error (400), some but not all failed gives the
\* partial-success response, no record failed gives the full-success
\* response.
C15_ResponseByBucketCounts ==
    BatchAnswered =>
        /\ Failed = Len(records) => HardError
        /\ (0 < Failed /\ Failed < Len(records)) => PartialSuccess
        /\ Failed = 0 => FullSuccess

\* C15, amended: the three-way decision holds for a batch of at least one
\* record, where the outcomes are mutually exclusive; an empty batch gets
\* the hard error from upload_file and the "No records found" message from
\* fetch_data.
C15_ResponseByBucketCountsNonEmpty ==
    BatchAnswered =>
        /\ Len(results) + Failed = Len(records)
        /\ IF Len(records) = 0
           THEN IF caller = "upload_file"
                THEN HardError
                ELSE http_status = 200 /\ message = "no_records"
           ELSE /\ Failed = Len(records) => HardError
                /\ (0 < Failed /\ Failed < Len(records)) => PartialSuccess
                /\ Failed = 0 => FullSuccess

C15_Witness ==
    /\ BatchAnswered
    /\ caller = "fetch_data"
    /\ Len(records) = 2
    /\ Len(validation_errors) = 1
    /\ Len(results) = 1
    /\ PartialSuccess

C15_WitnessEmptyUpload ==
    /\ BatchAnswered
    /\ caller = "upload_file"
    /\ Len(records) = 0
    /\ HardError

C15_WitnessEmptyFetch ==
    /\ BatchAnswered
    /\ caller = "fetch_data"
    /\ Len(records) = 0
    /\ message = "no_records"

C15_WitnessAllFailed ==
    /\ BatchAnswered
    /\ caller = "upload_file"
    /\ Len(records) = 2
    /\ Failed = 2
    /\ HardError

C15_WitnessFull ==
    /\ BatchAnswered
    /\ Len(records) = 2
    /\ Failed = 0
    /\ FullSuccess

\* An endpoint run is over: the response has been sent.
Answered ==
    \/ caller = "receive_data" /\ pc = "done"
    \/ caller \in BatchEndpoints /\ pc = "responded"

\* The schema identifier resolves in the schema source but has no registry
\* entry.
Unregistered ==
    schema_source = "ok" /\ schema_name \notin RegisteredNames

NoPipelineStep ==
    \A k \in Positions :
        trace[k].transform = 0 /\ trace[k].create = 0 /\ trace[k].forward = 0

\* C16: in receive_data, upload_file and fetch_data, a run whose schema
\* identifier resolves in the schema source but has no registry entry ends
\* with the configuration error (400), never with a validation error (422),
\* whatever the payload is, and makes no transform, repo.create or
\* forward_data call.
C16_UnregisteredIsConfigError ==
    /\ (Answered /\ Unregistered) => (http_status = 400 /\ http_status # 422)
    /\ Unregistered => (NoPipelineStep /\ db = << >>)

\* The part of C16 that holds: the batch endpoints answer 400, and no
\* endpoint transforms, stores or forwards anything.
C16_BatchEndpointsConfigError ==
    /\ (Answered /\ Unregistered /\ caller \in BatchEndpoints) =>
          (http_status = 400 /\ message = "no_config")
    /\ (caller \in BatchEndpoints \cup {"receive_data"} /\ Unregistered) =>
          (NoPipelineStep /\ db = << >>)

\* receive_data has answered.
ReceiveAnswered ==
    caller = "receive_data" /\ pc = "done"

\* The pipeline steps of the single record that went wrong.
TransformFailed ==
    trace[1].transform = 1 /\ trace[1].create = 0 /\ TransformRaises(records[1])

PersistenceFailed ==
    trace[1].created \in {"commit_failed", "refresh_failed"}

\* C17: receive_data answers 404 when the schema is not found, 422 when the
\* payload fails validation, 500 when the transform or repo.create fails,
\* and 502 when the delivery fails (forward_data ended on a non-retryable
\* status or exhausted its retries); it answers the success message only
\* when validation, transform, persistence and delivery all succeeded.
C17_ReceiveDataSurfacesErrors ==
    ReceiveAnswered =>
        /\ schema_source = "not_found" => http_status = 404
        /\ (schema_source = "ok" /\ FailsValidation(1)) => http_status = 422
        /\ (TransformFailed \/ PersistenceFailed) => http_status = 500
        /\ trace[1].delivery \in {"failure", "raised"} => http_status = 502
        /\ http_status = 200 =>
              /\ trace[1].validate = 1
              /\ trace[1].transform = 1
              /\ trace[1].created = "ok"
              /\ trace[1].delivery = "success"

\* The part of C17 that holds: every error but a delivery failure that
\* forward_data returns (rather than raises) gets its status.
C17_ReceiveDataSurfacesRaisedErrors ==
    ReceiveAnswered =>
        /\ schema_source = "not_found" => http_status = 404
        /\ (schema_source = "ok" /\ FailsValidation(1)) => http_status = 422
        /\ (TransformFailed \/ PersistenceFailed) => http_status = 500
        /\ trace[1].delivery = "raised" => http_status = 502
        /\ http_status = 200 =>
              /\ trace[1].validate = 1
              /\ trace[1].transform = 1
              /\ trace[1].created = "ok"
              /\ trace[1].delivery \in {"success", "failure"}

\* The transform function was called for record k and raised.
TransformRaised(k) ==
    trace[k].transform = 1 /\ records[k].kind # "dict"

\* C18: in process_records a record whose transform function raises is put
\* in errors (not in validation_errors, not in results) with the raw record
\* and the message of the exception, and neither repo.create nor
\* forward_data is called for it.
C18_TransformFailureClassified ==
    caller \in BatchCallers =>
        \A k \in Positions :
            TransformRaised(k) =>
                /\ \E e \in Range(errors) :
                      /\ e.record = k
                      /\ e.status = "error"
                      /\ e.detail = "AttributeError"
                /\ Cardinality({n \in 1..Len(errors) : errors[n].record = k}) = 1
                /\ ~InValidationErrors(k)
                /\ ~InResults(k)
                /\ trace[k].create = 0
                /\ trace[k].forward = 0
                /\ trace[k].post = 0
                /\ ~Persisted(k)
                /\ i # k

C18_Witness ==
    /\ caller = "process_records"
    /\ pc = "done"
    /\ Len(records) = 2
    /\ TransformRaised(1)
    /\ InErrors(1)
    /\ trace[2].post > 0
    /\ InResults(2)

C18_WitnessFetch ==
    /\ caller = "fetch_data"
    /\ pc = "responded"
    /\ \E k \in Positions : TransformRaised(k) /\ InErrors(k)

\* Attempt k of the forward_data call got a 2xx response.
Got2xx(k) ==
    /\ post_log[k].kind = "response"
    /\ post_log[k].status >= 200
    /\ post_log[k].status < 300

\* The call ended with attempt k: no attempt and no sleep followed it.
EndedWith(k) ==
    /\ k = Len(post_log)
    /\ attempt = k
    /\ Len(sleeps) = k - 1
    /\ Returned

\* C19: as soon as an attempt gets a 2xx response, whatever retryable
\* failures preceded it, forward_data returns success=true with that status
\* code and the parsed body (null content for an absent body), and no
\* further attempt or sleep takes place.
C19_First2xxReturnsSuccess ==
    \A k \in 1..Len(post_log) :
        Got2xx(k) =>
            /\ EndedWith(k)
            /\ outcome.success
            /\ outcome.status_code = post_log[k].status
            /\ outcome.content = ParsedContent(post_log[k].body)
            /\ outcome.error_message = None

\* The part of C19 that holds: a 2xx response always ends the call, and it
\* gives the success outcome when its body is absent or is JSON.
C19_First2xxEndsCall ==
    \A k \in 1..Len(post_log) :
        Got2xx(k) =>
            /\ EndedWith(k)
            /\ post_log[k].body \in {"", "json"} =>
                  /\ outcome.success
                  /\ outcome.status_code = post_log[k].status
                  /\ outcome.content = ParsedContent(post_log[k].body)
            /\ post_log[k].body = "text" =>
                  /\ ~outcome.success
                  /\ outcome.status_code = 500

\* fetch_data_from_api has returned the give-up outcome.
FetchGaveUp ==
    /\ pc = "fa_exit"
    /\ outcome.kind = "return"
    /\ outcome.error_message = MaxRetriesMessage

\* C20: fetch_data_from_api gives up only after max_attempts GET attempts
\* with a sleep between consecutive attempts, when the source keeps
\* answering a status of retry_status_codes or keeps failing at network
\* level; a successful attempt after failed ones returns the records.
C20_FetchRetriesUpToMaxAttempts ==
    /\ FetchGaveUp =>
          /\ Len(get_log) = retry_config.max_attempts
          /\ sleeps = [k \in 1..(retry_config.max_attempts - 1) |-> k]
    /\ pc = "fa_sleep" => attempt < retry_config.max_attempts
    /\ (pc = "fa_exit" /\ outcome.kind = "list") =>
          get_log[Len(get_log)].status \in 200..299

\* What the code does: the call never makes a second GET; after a
\* retryable failure it sleeps once (if max_attempts > 1) and gives up.
C20_FetchMakesOneAttempt ==
    /\ Len(get_log) <= 1
    /\ pc \in {"fa_sleep", "fa_exit"} => Len(get_log) = 1
    /\ FetchGaveUp =>
          sleeps = (IF retry_config.max_attempts > 1 THEN << 1 >> ELSE << >>)

\* The await of record k was cancelled.
CancelledAt(k) ==
    trace[k].created = "cancelled" \/ trace[k].delivery = "cancelled"

\* C21: a cancellation delivered while process_records is suspended in
\* repo.create, in a forward_data request or in a retry sleep leaves
\* process_records as an exception: the record is put in no bucket, the
\* buckets hold the earlier records only, and no later record is validated,
\* transformed, persisted or forwarded.
C21_CancellationAbortsBatch ==
    caller \in BatchCallers =>
        \A k \in Positions :
            CancelledAt(k) =>
                /\ pc = "cancelled"
                /\ i = k
                /\ trace[k].delivery = "cancelled" =>
                      outcome = Raised("CancelledError")
                /\ ~InErrors(k) /\ ~InValidationErrors(k)
                /\ \A e \in Range(results) : trace[k].id = 0 \/ e.id # trace[k].id
                /\ Len(results) + Len(validation_errors) + Len(errors) = k - 1
                /\ \A n \in Positions : n > k => trace[n] = NoTrace

C21_Witness ==
    /\ caller = "process_records"
    /\ pc = "cancelled"
    /\ Len(records) = 2
    /\ i = 1
    /\ trace[1].delivery = "cancelled"
    /\ sleeps = << 1 >>
    /\ trace[2] = NoTrace

C21_WitnessCreate ==
    /\ caller = "process_records"
    /\ pc = "cancelled"
    /\ Len(records) = 2
    /\ i = 2
    /\ trace[2].created = "cancelled"
    /\ Len(results) = 1

\* No attempt of the call obtained a response.
NoStatusObtained ==
    \A k \in 1..Len(post_log) : post_log[k].kind # "response"

FailureMessages ==
    {"HTTP error", "Unexpected error", MaxRetriesMessage}

C22_WitnessUnexpected ==
    /\ Returned
    /\ ~outcome.success
    /\ outcome.status_code = 500
    /\ outcome.error_message = "Unexpected error"

C22_WitnessSuccess ==
    /\ Returned
    /\ outcome.success
    /\ outcome.status_code = 200
    /\ outcome.content = None

\* fetch_data_from_api has returned a list.
FetchReturnedList ==
    pc = "fa_exit" /\ outcome.kind = "list"

\* C23: on a successful GET, fetch_data_from_api returns a list body as it
\* is, the value under 'data', else 'results', else 'items' of a dict body
\* (in that order of precedence), and any other body wrapped as a
\* one-element list.
C23_ResponseNormalized ==
    FetchReturnedList =>
        /\ source_body.kind = "list" => fetched = source_body.items
        /\ source_body.kind = "dict" =>
              /\ "data" \in source_body.fields => fetched = ValueUnder("data")
              /\ ("data" \notin source_body.fields
                    /\ "results" \in source_body.fields) =>
                    fetched = ValueUnder("results")
              /\ ({"data", "results"} \cap source_body.fields = {}
                    /\ "items" \in source_body.fields) =>
                    fetched = ValueUnder("items")
              /\ {"data", "results", "items"} \cap source_body.fields = {} =>
                    fetched = << DictRecord(source_body.fields) >>
        /\ source_body.kind = "scalar" => fetched = << ScalarRecord >>
        /\ caller = "fetch_data" => fetched = records

C23_Witness ==
    /\ FetchReturnedList
    /\ source_body = JsonDict({"data", "results", "items"})
    /\ fetched = << DictRecord({"data"}) >>

C23_WitnessWrapped ==
    /\ FetchReturnedList
    /\ source_body = JsonDict({"name"})
    /\ fetched = << DictRecord({"name"}) >>

C23_WitnessList ==
    /\ FetchReturnedList
    /\ source_body.kind = "list"
    /\ Len(fetched) = 1

\* C24: process_records runs each input record through the pipeline once:
\* at most one validate, one transform, one repo.create and one
\* forward_data call per record, none for a record the loop has not
\* reached, so at most K rows are stored for K records and a record that
\* failed is not run again.
C24_EachRecordOnce ==
    caller \in BatchCallers =>
        /\ \A k \in Positions :
              /\ trace[k].validate <= 1
              /\ trace[k].transform <= trace[k].validate
              /\ trace[k].create <= trace[k].transform
              /\ trace[k].forward <= trace[k].create
              /\ k > i => trace[k] = NoTrace
              /\ k < i => trace[k].validate = 1
              /\ Cardinality({n \in 1..Len(db) : db[n].raw_data = records[k]
                                                   /\ db[n].id = trace[k].id}) <= 1
        /\ Len(db) = Cardinality({k \in Positions : trace[k].id # 0})
        /\ Len(db) <= Len(records)

C24_Witness ==
    /\ caller = "process_records"
    /\ pc = "done"
    /\ Len(records) = 2
    /\ trace[1].created = "refresh_failed"
    /\ InErrors(1)
    /\ trace[1].validate = 1 /\ trace[1].create = 1 /\ trace[1].forward = 0
    /\ trace[2].forward = 1
    /\ trace[2].post = 3
    /\ Len(db) = 2

\* The payload the caller handed to forward_data.
OriginalPayload ==
    IF caller = "forward_data"
    THEN transform_contact_message(DictRecord(Fields))
    ELSE transformed_data

TreatedAsHeaders ==
    auth_handler \in {"headers", "mixed"}

TreatedAsPayload ==
    auth_handler = "payload"

\* C25: the auth handler's result is used as additional headers or as the
\* modified payload, never both: taken as headers, every attempt posts the
\* caller's payload (with the caller's headers plus the handler's); taken
\* as payload, every attempt posts that payload with the caller's headers;
\* all attempts of one call post the same headers and payload.
C25_AuthResultHeadersOrPayload ==
    \A n \in 1..Len(sent) :
        /\ TreatedAsHeaders =>
              /\ sent[n].payload = OriginalPayload
              /\ sent[n].headers = headers_arg.entries \cup AuthHeadersOf(auth_handler)
        /\ TreatedAsPayload =>
              /\ sent[n].payload = AuthPayload
              /\ sent[n].headers = headers_arg.entries
        /\ ~(sent[n].payload # OriginalPayload
                /\ sent[n].headers # headers_arg.entries)
        /\ sent[n] = sent[1]
        /\ Len(sent) = Len(post_log)

C25_Witness ==
    /\ pc = "fd_exit"
    /\ TreatedAsPayload
    /\ headers_arg = HeadersDict({"X-Trace"})
    /\ Len(sent) = 3
    /\ sent[3] = [payload |-> AuthPayload, headers |-> {"X-Trace"}]

C25_WitnessHeaders ==
    /\ pc = "fd_exit"
    /\ auth_handler = "mixed"
    /\ Len(sent) = 2
    /\ sent[2].payload = OriginalPayload
    /\ sent[2].headers = {"Authorization", "X-Attempt"}

\* C30: forward_data leaves the caller's arguments as they were: when the
\* call is over, whatever its outcome, the headers mapping and the data
\* mapping the caller passed hold the entries they held before, also when
\* an auth handler returned headers to merge.
C30_ArgumentsUnchanged ==
    pc = "fd_exit" =>
        /\ headers = headers_arg
        /\ caller # "forward_data" =>
              transformed_data = Transform(SCHEMA_REGISTRY(schema_name), records[i])

\* What holds of C30: the data mapping is never written, and the headers
\* mapping is written only when it was passed non-empty and the handler's
\* result was taken for headers.
C30_ArgumentsUnchangedUnlessMerged ==
    pc = "fd_exit" =>
        /\ caller # "forward_data" =>
              transformed_data = Transform(SCHEMA_REGISTRY(schema_name), records[i])
        /\ headers # headers_arg =>
              /\ headers_arg.passed /\ headers_arg.entries # {}
              /\ TreatedAsHeaders
              /\ headers.entries = headers_arg.entries \cup AuthHeadersOf(auth_handler)

\* The status of the response that ended the call with a returned outcome.
LastStatus ==
    post_log[Len(post_log)].status

\* C26: forward_data returns success=true only for a 2xx response; a
\* response with any other status (1xx, 3xx, >= 400) never gives a success
\* outcome.
C26_SuccessOnly2xx ==
    (Returned /\ outcome.success) =>
        /\ post_log # << >>
        /\ post_log[Len(post_log)].kind = "response"
        /\ LastStatus >= 200 /\ LastStatus < 300
        /\ outcome.status_code = LastStatus

\* What holds of C26: a success outcome carries a status below 400.
C26_SuccessOnlyBelow400 ==
    (Returned /\ outcome.success) =>
        /\ post_log # << >>
        /\ post_log[Len(post_log)].kind = "response"
        /\ LastStatus < 400
        /\ outcome.status_code = LastStatus

\* C27: once an attempt obtained a 2xx response (the destination accepted
\* the payload), the outcome forward_data returns is success=true, whatever
\* the body of the response holds.
C27_DeliveredNeverFailure ==
    Returned =>
        ((\E k \in 1..Len(post_log) : Got2xx(k)) => outcome.success)

\* Record k was stored but not delivered.
StoredNotDelivered(k) ==
    /\ trace[k].id # 0
    /\ \/ trace[k].created = "refresh_failed"
       \/ trace[k].delivery \in {"failure", "raised"}

\* C28: in process_records every id in results is the id of a row this
\* batch stored, the ids in results are pairwise distinct, there are never
\* more successes than stored rows, and a record that was stored but not
\* delivered is not listed as a success.
C28_SuccessesArePersistedAndDelivered ==
    caller \in BatchCallers =>
        /\ \A e \in Range(results) : \E row \in Range(db) : row.id = e.id
        /\ \A a, b \in 1..Len(results) :
              a # b => results[a].id # results[b].id
        /\ Len(results) <= Len(db)
        /\ \A k \in Positions : StoredNotDelivered(k) => ~InResults(k)

\* What holds of C28: the ids of results are ids of rows of this batch,
\* pairwise distinct, and no more than the rows stored.
C28_ResultsArePersistedIds ==
    caller \in BatchCallers =>
        /\ \A e \in Range(results) :
              /\ \E row \in Range(db) : row.id = e.id
              /\ \E k \in Positions :
                    /\ trace[k].id = e.id
                    /\ trace[k].created = "ok"
                    /\ k < i
        /\ \A a, b \in 1..Len(results) :
              a # b => results[a].id # results[b].id
        /\ \A a, b \in 1..Len(db) : a # b => db[a].id # db[b].id
        /\ Len(results) <= Len(db)



\* The POSTs and sleeps of the forward_data call in progress stay within
\* the limits max_attempts sets.
AttemptsBounded ==
    InForward /\ pc # "fd_entry" =>
        /\ attempt \in 0..retry_config.max_attempts
        /\ Len(post_log) = attempt
        /\ Len(post_log) <= retry_config.max_attempts
        /\ Len(sleeps) <= retry_config.max_attempts - 1
        /\ \A s \in Range(sleeps) : s \in 1..(retry_config.max_attempts - 1)
        /\ pc = "fd_sleep" => attempt \in 1..(retry_config.max_attempts - 1)
        /\ Returned =>
              /\ attempt \in 1..retry_config.max_attempts
              /\ Len(post_log) >= 1
              /\ Len(sleeps) = attempt - 1

\* C29: forward_data terminates whenever every POST and every sleep does;
\* a call that reaches the retry loop makes at least 1 and at most
\* max_attempts POSTs and at most max_attempts - 1 sleeps, and the attempt
\* counter of every POST and of every sleep lies in 1..max_attempts.
C29_ForwardTerminatesWithinBounds ==
    /\ []AttemptsBounded
    /\ (pc = "fd_entry") ~> (pc = "fd_exit")

C29_Witness ==
    /\ Exhausted
    /\ retry_config.max_attempts = MaxAttempts
    /\ Len(post_log) = MaxAttempts
    /\ Len(sleeps) = MaxAttempts - 1

C29_WitnessOnePost ==
    /\ Returned
    /\ outcome.success
    /\ retry_config.max_attempts = MaxAttempts
    /\ Len(post_log) = 1
    /\ Len(sleeps) = 0


\* The registry entry of the run has an empty destination URL.
EmptyDestination ==
    /\ schema_name \in RegisteredNames
    /\ SCHEMA_REGISTRY(schema_name).destination_url = ""

\* Record k passes validation.
Valid(k) ==
    ValidateResult(records[k], schema) = "ok"

\* The transform and repo.create of record k went through.
Stored(k) ==
    trace[k].transform = 1 /\ trace[k].created = "ok"

\* C31: with an empty destination URL in the registry entry,
\* process_records takes every valid record through validate, transform
\* and repo.create before forward_data raises ValueError for the URL: the
\* record's row is stored, the record ends in errors (in no other bucket),
\* and no POST is made for any record of the batch.
C31_EmptyDestinationPersistsThenFails ==
    caller \in BatchCallers /\ EmptyDestination =>
        /\ post_log = << >>
        /\ \A k \in Positions : trace[k].post = 0
        /\ \A k \in Positions :
              k < i /\ Valid(k) =>
                /\ trace[k].validate = 1
                /\ trace[k].transform = 1
                /\ ~TransformRaises(records[k]) => trace[k].create = 1
                /\ InErrors(k)
                /\ ~InResults(k)
                /\ ~InValidationErrors(k)
        /\ \A k \in Positions :
              k < i /\ Valid(k) /\ Stored(k) =>
                /\ Persisted(k)
                /\ RowKept(k)
                /\ db[trace[k].id].forwarded_to = ""
                /\ trace[k].forward = 1
                /\ trace[k].delivery = "raised"
        /\ pc = "fd_exit" =>
              /\ outcome = Raised("ValueError")
              /\ attempt = 0
              /\ Stored(i)
              /\ Persisted(i)

C31_Witness ==
    /\ caller = "process_records"
    /\ EmptyDestination
    /\ pc = "done"
    /\ Len(records) = 2
    /\ \A k \in Positions : Valid(k) /\ Stored(k) /\ trace[k].delivery = "raised"
    /\ Len(db) = 2
    /\ Len(errors) = 2
    /\ Len(results) = 0

C31_WitnessRejected ==
    /\ caller \in BatchEndpoints
    /\ EmptyDestination
    /\ pc = "fd_exit"
    /\ i = 2
    /\ outcome = Raised("ValueError")
    /\ Len(db) = 2

====
